---- MODULE Spec2Model ----
(***************************************************************************)
(* Tripy travel chatbot: session-scoped conversation state (Streamlit      *)
(* front-end in streamlit_app.py, agent and SQL-backed history in main.py).*)
(*                                                                         *)
(* Texts are sequences of tokens, so that concatenation of streamed        *)
(* fragments is \o and the empty string is <<>>.  Session ids are the      *)
(* successive results of uuid4(): fresh positive integers, 0 is None.      *)
(* The storage engine is assumed durable: reads return what the table      *)
(* holds; the failures modelled are the ones the code handles on the write *)
(* and model side (stream raises, invoke raises, fallback save raises,     *)
(* clear raises).                                                          *)
(* UI events (buttons, form submit) are taken when the script is idle.     *)
(***************************************************************************)
EXTENDS Integers, Sequences, FiniteSets, TLC

\* ---------------------------------------------------------------- bounds
MaxSessions == 2        \* number of uuid4() session ids ever created
MaxTurns    == 2        \* number of user messages submitted overall
MaxChunks   == 1        \* chunks the hosted model streams for one response

\* ------------------------------------------------------ program constants
max_iterations == 5

None == 0
SessionIds == 1..MaxSessions

Greeting == <<"Hi! I'm Tripy, your personal travel planning assistant.">>
StoppedResponse == <<"Agent stopped due to iteration limit or time limit.">>
\* today = datetime.date.today(), evaluated once, when main.py is imported:
\* the day the process started
today == 1
\* get_system_prompt(): the template with {today} filled in
SystemPrompt == <<"system_prompt", "today's date is", ToString(today)>>

\* inputs of the environment
\* the k-th message the user types is a text of its own (the code has no
\* branch on a repeated message); a blank message may be typed at any time
Typed == << <<"u1">>, <<"u2">>, <<"u3">>, <<"u4">>, <<"u5">>, <<"u6">> >>
AllPrompts == {Typed[k] : k \in 1..6} \cup {<<" ">>}
ChunkContents == {<<"a">>, <<>>}                 \* chunk.content of llm.stream
AgentAnswers  == {<<"r">>}                       \* final answer of the agent
Exceptions    == {"e"}

\* f"Sorry, I encountered an error: {e}. Please try again!"
ErrorMsg(e) == <<"Sorry, I encountered an error: ", e, ". Please try again!">>

\* str.strip(): drop leading and trailing whitespace tokens
RECURSIVE lstrip(_)
lstrip(t) == IF t # <<>> /\ Head(t) = " " THEN lstrip(Tail(t)) ELSE t
RECURSIVE rstrip(_)
rstrip(t) == IF t # <<>> /\ t[Len(t)] = " " THEN rstrip(SubSeq(t, 1, Len(t) - 1)) ELSE t
strip(t) == rstrip(lstrip(t))

VARIABLES
    message_store,      \* table message_store of travel_chats.db, in rowid order
    next_uuid,          \* the next fresh id uuid4() hands out
    session_state,      \* st.session_state
    pc,                 \* where the script is: idle, stream, invoke, done
    messages,           \* get_chatbot_response_stream: context of the turn
    full_response,      \* get_chatbot_response_stream: accumulated text
    displayed,          \* main: concatenation of the yielded fragments
    chunks,             \* chunks received from llm.stream in this turn
    iterations,         \* AgentExecutor: tool rounds of the running invoke
    \* ---- history variables (observations, not program state)
    last_op,            \* the operation that produced this state
    appended,           \* per session: turns appended since its last clear
    turn_start_store,   \* message_store when the running turn started
    model_generations,  \* independent model generations started in the turn
    turns_ok,           \* per session: successful turns, -1 once tainted
    left_turns,         \* per session: stored turns when it was switched away
    deleted,            \* session ids cleared by a successful delete
    turns_submitted,    \* user messages submitted so far
    last_active,        \* sessions holding turns, latest append first
    \* ---- direct use of the store and of the weather tool
    store_result,       \* what the last direct store operation returned
    weather,            \* a call of the weather tool: its input and output
    calendar_date,      \* the calendar date, in days
    submitted_in,       \* the session in which the pending input was submitted
    invoke_call         \* a direct call of StreamableAgent.invoke and its result

vars == <<message_store, next_uuid, session_state, pc, messages,
          full_response, displayed, chunks, iterations,
          last_op, appended, turn_start_store, model_generations,
          turns_ok, left_turns, deleted, turns_submitted, last_active,
          store_result, weather, calendar_date, submitted_in, invoke_call>>

aux_vars == <<store_result, weather, calendar_date, invoke_call>>

\* text typed in the form
HumanPrompts == {Typed[turns_submitted + 1], <<" ">>}

\* ------------------------------------------------- Conversation Store
\* mutant: the rows are not filtered by session
get_session_history_unfiltered(store, session_id) == store

\* SQLChatMessageHistory(session_id).messages
get_session_history(store, session_id) ==
    SelectSeq(store, LAMBDA r : r.session_id = session_id)

\* mutant: the new row is put in front of the table
add_message_prepend(store, session_id, type, content) ==
    <<[session_id |-> session_id, type |-> type, content |-> content]>> \o store

\* SQLChatMessageHistory(session_id).add_message
add_message(store, session_id, type, content) ==
    Append(store, [session_id |-> session_id, type |-> type, content |-> content])

\* mutant: clear removes the session's human rows only
clear_only_human(store, session_id) ==
    SelectSeq(store, LAMBDA r : r.session_id # session_id \/ r.type # "human")

\* SQLChatMessageHistory(session_id).clear
clear(store, session_id) ==
    SelectSeq(store, LAMBDA r : r.session_id # session_id)

\* mutant: the id of the first session is handed out again
create_first_session_again(fresh) == 1

\* create_new_chat_session: str(uuid.uuid4()), an id never handed out before
create_new_chat_session(fresh) == fresh

\* rows in reverse rowid order
RECURSIVE Reverse(_)
Reverse(s) == IF s = <<>> THEN <<>> ELSE Append(Reverse(Tail(s)), Head(s))

\* SELECT DISTINCT session_id FROM message_store ORDER BY rowid DESC
RECURSIVE Distinct(_, _)
Distinct(rows, seen) ==
    IF rows = <<>> THEN <<>>
    ELSE IF Head(rows).session_id \in seen THEN Distinct(Tail(rows), seen)
    ELSE <<Head(rows).session_id>>
         \o Distinct(Tail(rows), seen \cup {Head(rows).session_id})

\* mutant: ORDER BY rowid ASC
order_by_rowid_asc(store) == store

\* ORDER BY rowid DESC
order_by_rowid_desc(store) == Reverse(store)

\* mutant: only the session of the newest row is listed
get_all_chat_sessions_latest(store) ==
    IF store = <<>> THEN <<>> ELSE <<store[Len(store)].session_id>>

\* get_all_chat_sessions
get_all_chat_sessions(store) == Distinct(order_by_rowid_desc(store), {})

Range(s) == {s[i] : i \in 1..Len(s)}

\* mutant: a session without rows reads as the greeting
get_chat_history_greeting(store, session_id) ==
    LET history == get_session_history(store, session_id)
    IN  IF history = <<>> THEN <<[origin |-> "assistant", content |-> Greeting]>>
        ELSE [i \in 1..Len(history) |->
                 [origin  |-> IF history[i].type = "human" THEN "human" ELSE "assistant",
                  content |-> history[i].content]]

\* get_chat_history_for_session
get_chat_history_for_session(store, session_id) ==
    LET history == get_session_history(store, session_id)
    IN  [i \in 1..Len(history) |->
            [origin  |-> IF history[i].type = "human" THEN "human" ELSE "assistant",
             content |-> history[i].content]]

\* ------------------------------------------------- st.session_state
\* keys: the keys present in st.session_state; a deleted or unset key keeps
\* a default value in the record and is absent from keys.
EmptySessionState ==
    [keys |-> {}, current_session_id |-> None, travel_agent |-> None,
     agent_session_id |-> None, last_loaded_session_id |-> None,
     history |-> <<>>, awaiting_response |-> FALSE, current_user_input |-> <<>>]

\* StreamableAgent(agent_executor, llm, session_id): the session it is bound to
get_travel_agent(session_id) == session_id

\* mutant: the agent is built without the session id
initialize_chatbot_unbound(ss) ==
    IF "travel_agent" \notin ss.keys \/ ss.agent_session_id # ss.current_session_id
    THEN [ss EXCEPT !.keys = @ \cup {"travel_agent", "memory", "system_prompt",
                                     "agent_session_id"},
                    !.travel_agent = get_travel_agent(None),
                    !.agent_session_id = ss.current_session_id]
    ELSE ss

initialize_chatbot(ss) ==
    IF "travel_agent" \notin ss.keys \/ ss.agent_session_id # ss.current_session_id
    THEN [ss EXCEPT !.keys = @ \cup {"travel_agent", "memory", "system_prompt",
                                     "agent_session_id"},
                    !.travel_agent = get_travel_agent(ss.current_session_id),
                    !.agent_session_id = ss.current_session_id]
    ELSE ss

\* Message(origin, message) list built from the rows read for the session
LoadedHistory(db_history) ==
    IF db_history # <<>>
    THEN [i \in 1..Len(db_history) |->
            [origin  |-> IF db_history[i].origin = "human" THEN "human" ELSE "assistant",
             message |-> db_history[i].content]]
    ELSE << [origin |-> "assistant", message |-> Greeting] >>

\* mutant: the history is loaded only when there is none yet
initialize_session_state_stale(ss, store, fresh) ==
    LET s1 == IF "current_session_id" \notin ss.keys
              THEN [ss EXCEPT !.keys = @ \cup {"current_session_id"},
                              !.current_session_id = create_new_chat_session(fresh)]
              ELSE ss
        s2 == IF "history" \notin s1.keys
              THEN [s1 EXCEPT
                      !.keys = @ \cup {"history", "last_loaded_session_id"},
                      !.history = LoadedHistory(
                          get_chat_history_for_session(store, s1.current_session_id)),
                      !.last_loaded_session_id = s1.current_session_id]
              ELSE [s1 EXCEPT !.keys = @ \cup {"last_loaded_session_id"},
                              !.last_loaded_session_id = s1.current_session_id]
        s3 == [s2 EXCEPT !.keys = @ \cup {"awaiting_response", "current_user_input"}]
    IN  initialize_chatbot(s3)

initialize_session_state(ss, store, fresh) ==
    LET s1 == IF "current_session_id" \notin ss.keys
              THEN [ss EXCEPT !.keys = @ \cup {"current_session_id"},
                              !.current_session_id = create_new_chat_session(fresh)]
              ELSE ss
        s2 == IF "history" \notin s1.keys
                 \/ s1.last_loaded_session_id # s1.current_session_id
              THEN [s1 EXCEPT
                      !.keys = @ \cup {"history", "last_loaded_session_id"},
                      !.history = LoadedHistory(
                          get_chat_history_for_session(store, s1.current_session_id)),
                      !.last_loaded_session_id = s1.current_session_id]
              ELSE s1
        s3 == [s2 EXCEPT !.keys = @ \cup {"awaiting_response", "current_user_input"}]
    IN  initialize_chatbot(s3)

switch_session(ss, session_id) ==
    [ss EXCEPT !.current_session_id = session_id,
               !.keys = @ \ {"travel_agent", "memory", "last_loaded_session_id"},
               !.travel_agent = None,
               !.last_loaded_session_id = None]

on_click_callback(ss, human_prompt) ==
    IF strip(human_prompt) # <<>>
    THEN [ss EXCEPT !.history = Append(@, [origin |-> "human", message |-> human_prompt]),
                    !.awaiting_response = TRUE,
                    !.current_user_input = human_prompt]
    ELSE ss

\* ------------------------------------------------- persistence of a turn
\* mutant: the output message is added before the input message
save_with_history_reversed(store, session_id, user_input, output) ==
    add_message(add_message(store, session_id, "ai", output),
                session_id, "human", user_input)

\* RunnableWithMessageHistory.invoke: once the wrapped agent has returned,
\* the input message and the output message are added to the history of the
\* configured session (config = {"session_id": self.session_id}).
save_with_history(store, session_id, user_input, output) ==
    add_message(add_message(store, session_id, "human", user_input),
                session_id, "ai", output)

\* mutant: the exchange is saved by the wrapper and once more directly
invoke_saved_twice(store, agent_session, user_input, output) ==
    IF agent_session # None
    THEN save_with_history(save_with_history(store, agent_session, user_input, output),
                           agent_session, user_input, output)
    ELSE store

\* StreamableAgent.invoke([HumanMessage(user_input)]) returning normally:
\* the history wrapper exists only for an agent bound to a session.
invoke_saved(store, agent_session, user_input, output) ==
    IF agent_session # None
    THEN save_with_history(store, agent_session, user_input, output)
    ELSE store

\* the direct save after invoke raised: add_user_message, add_ai_message;
\* n is the number of the two adds that succeed before one raises
save_direct(store, session_id, user_input, response, n) ==
    IF n = 0 THEN store
    ELSE IF n = 1 THEN add_message(store, session_id, "human", user_input)
    ELSE add_message(add_message(store, session_id, "human", user_input),
                     session_id, "ai", response)

\* mutant: a failed fallback save reaches the outer except, which yields
\* the error message
alt_save_reraised(n) == IF n < 2 THEN ErrorMsg("e") ELSE <<>>

\* except Exception as alt_save_error: print(...); what the generator yields
\* after the fallback save, n of its two adds having succeeded
alt_save_except(n) == <<>>

\* mutant: the rows are gone although the delete is reported as failed
delete_chat_session_except_cleared(store, session_id) ==
    [ok |-> FALSE, store |-> clear(store, session_id)]

\* except Exception as e: print(...); return False -- history.clear() raised,
\* its transaction was not committed
delete_chat_session_except(store, session_id) == [ok |-> FALSE, store |-> store]

\* mutant: deleting a session without rows is reported as a failure
delete_chat_session_missing_fails(store, session_id, raises) ==
    IF raises \/ get_session_history(store, session_id) = <<>>
    THEN [ok |-> FALSE, store |-> store]
    ELSE [ok |-> TRUE, store |-> clear(store, session_id)]

\* delete_chat_session: True and the session cleared, or False when clear raises
delete_chat_session(store, session_id, raises) ==
    IF raises THEN delete_chat_session_except(store, session_id)
    ELSE [ok |-> TRUE, store |-> clear(store, session_id)]

\* mutant: the current session stays current after its delete
delete_clicked_no_switch(ss, store, session, ok, fresh) ==
    initialize_session_state(ss, store, fresh)

\* main, delete button: after a successful delete of the current session a
\* new session is created and switched to; st.rerun() either way
delete_clicked(ss, store, session, ok, fresh) ==
    IF ok /\ ss.current_session_id = session
    THEN initialize_session_state(
             switch_session(ss, create_new_chat_session(fresh)), store, fresh + 1)
    ELSE initialize_session_state(ss, store, fresh)

\* mutant: the failed exchange is saved with the error message as the answer
stream_except_saving(store, session_id, user_input, error_msg) ==
    add_message(add_message(store, session_id, "human", user_input),
                session_id, "ai", error_msg)

\* get_chatbot_response_stream, except Exception as e: the error message is
\* yielded and returned, nothing is saved
stream_except(store, session_id, user_input, error_msg) == store

\* mutant: no iteration limit
should_continue_unbounded(n) == TRUE

\* AgentExecutor._should_continue with max_iterations = 5
should_continue(n) == n < max_iterations

\* mutant: the new human message is put before the stored history
build_messages_human_first(store, ss, user_input) ==
    << [type |-> "system", content |-> SystemPrompt] >>
    \o << [type |-> "human", content |-> user_input] >>
    \o [i \in 1..Len(get_session_history(store, ss.current_session_id)) |->
          [type    |-> get_session_history(store, ss.current_session_id)[i].type,
           content |-> get_session_history(store, ss.current_session_id)[i].content]]

\* context of the turn: system prompt, stored history, the new human message
build_messages(store, ss, user_input) ==
    << [type |-> "system", content |-> SystemPrompt] >>
    \o [i \in 1..Len(get_session_history(store, ss.current_session_id)) |->
          [type    |-> get_session_history(store, ss.current_session_id)[i].type,
           content |-> get_session_history(store, ss.current_session_id)[i].content]]
    \o << [type |-> "human", content |-> user_input] >>

\* ------------------------------------------------- observations
Op(op, sid, arg) == [op |-> op, sid |-> sid, arg |-> arg]
Turn(origin, content) == [origin |-> origin, content |-> content]
Current == session_state.current_session_id
Idle == pc = "idle" /\ ~session_state.awaiting_response
Taint(f, s) == [f EXCEPT ![s] = -1]
Count(f, s, good) == [f EXCEPT ![s] = IF @ >= 0 /\ good THEN @ + 1 ELSE -1]

Touch(la, s) == <<s>> \o SelectSeq(la, LAMBDA x : x # s)
Drop(la, s) == SelectSeq(la, LAMBDA x : x # s)
NoResult == [ok |-> TRUE, turns |-> <<>>, sessions |-> <<>>]
NoCall == [state |-> "none"]

\* ------------------------------------------------- initial state
\* first page load: main() has run initialize_session_state on an empty
\* st.session_state and an empty database
Init ==
    /\ message_store = <<>>
    /\ next_uuid = 2
    /\ session_state = initialize_session_state(EmptySessionState, <<>>, 1)
    /\ pc = "idle"
    /\ messages = <<>>
    /\ full_response = <<>>
    /\ displayed = <<>>
    /\ chunks = 0
    /\ iterations = 0
    /\ last_op = Op("load", 1, <<>>)
    /\ appended = [s \in SessionIds |-> <<>>]
    /\ turn_start_store = <<>>
    /\ model_generations = 0
    /\ turns_ok = [s \in SessionIds |-> 0]
    /\ left_turns = [s \in SessionIds |-> <<>>]
    /\ deleted = {}
    /\ turns_submitted = 0
    /\ last_active = <<>>
    /\ store_result = NoResult
    /\ weather = NoCall
    /\ calendar_date = today
    /\ submitted_in = None
    /\ invoke_call = NoCall

turn_vars == <<messages, full_response, displayed, chunks, iterations,
               turn_start_store, model_generations>>

\* ------------------------------------------------- sidebar
\* "New Chat": create_new_chat_session, switch_session, st.rerun()
NewChat ==
    /\ UNCHANGED aux_vars
    /\ UNCHANGED submitted_in
    /\ Idle
    /\ next_uuid <= MaxSessions
    /\ session_state' = initialize_session_state(
                            switch_session(session_state, create_new_chat_session(next_uuid)),
                            message_store, next_uuid + 1)
    /\ next_uuid' = next_uuid + 1
    /\ left_turns' = [left_turns EXCEPT ![Current] = appended[Current]]
    /\ last_op' = Op("new", next_uuid, <<>>)
    /\ UNCHANGED <<message_store, pc, appended, last_active, turns_ok, deleted,
                   turns_submitted>>
    /\ UNCHANGED turn_vars

\* "Chat i": switch_session(session) and st.rerun() unless it is the current one
SwitchClick(session) ==
    /\ UNCHANGED aux_vars
    /\ UNCHANGED submitted_in
    /\ Idle
    /\ session \in Range(get_all_chat_sessions(message_store))
    /\ LET is_current == session = Current
       IN  /\ session_state' =
                IF ~is_current
                THEN initialize_session_state(switch_session(session_state, session),
                                              message_store, next_uuid)
                ELSE initialize_session_state(session_state, message_store, next_uuid)
           /\ left_turns' = IF ~is_current
                            THEN [left_turns EXCEPT ![Current] = appended[Current]]
                            ELSE left_turns
           /\ last_op' = Op(IF is_current THEN "same" ELSE "switch", session, <<>>)
    /\ UNCHANGED <<message_store, next_uuid, pc, appended, last_active, turns_ok, deleted,
                   turns_submitted>>
    /\ UNCHANGED turn_vars

\* delete button of a listed session
DeleteClick(session, raises) ==
    /\ UNCHANGED aux_vars
    /\ UNCHANGED submitted_in
    /\ Idle
    /\ session \in Range(get_all_chat_sessions(message_store))
    /\ LET r == delete_chat_session(message_store, session, raises)
           was_current == session = Current
       IN  /\ (r.ok /\ was_current) => next_uuid <= MaxSessions
           /\ message_store' = r.store
           /\ session_state' = delete_clicked(session_state, r.store, session, r.ok,
                                               next_uuid)
           /\ next_uuid' = IF r.ok /\ was_current THEN next_uuid + 1 ELSE next_uuid
           /\ appended' = IF r.ok THEN [appended EXCEPT ![session] = <<>>] ELSE appended
           /\ last_active' = IF r.ok THEN Drop(last_active, session) ELSE last_active
           /\ turns_ok' = IF r.ok THEN Taint(turns_ok, session) ELSE turns_ok
           /\ deleted' = IF r.ok THEN deleted \cup {session} ELSE deleted
           /\ left_turns' = IF r.ok THEN [left_turns EXCEPT ![session] = <<>>]
                            ELSE left_turns
           /\ last_op' = Op(IF ~r.ok THEN "delete_failed"
                            ELSE IF was_current THEN "delete_current"
                            ELSE "delete_other", session, <<>>)
    /\ UNCHANGED <<pc, turns_submitted>>
    /\ UNCHANGED turn_vars

\* ------------------------------------------------- a turn
\* form submit: on_click_callback, then the script reruns from the top
Submit(human_prompt) ==
    /\ UNCHANGED aux_vars
    /\ submitted_in' = IF strip(human_prompt) # <<>> THEN Current ELSE submitted_in
    /\ Idle
    /\ human_prompt \in HumanPrompts
    /\ turns_submitted < MaxTurns
    /\ session_state' = initialize_session_state(
                            on_click_callback(session_state, human_prompt),
                            message_store, next_uuid)
    /\ turns_submitted' = IF strip(human_prompt) # <<>> THEN turns_submitted + 1
                           ELSE turns_submitted
    /\ last_op' = Op("submit", Current, human_prompt)
    /\ UNCHANGED <<message_store, next_uuid, pc, appended, last_active, turns_ok,
                   left_turns, deleted>>
    /\ UNCHANGED turn_vars

\* main: awaiting_response; get_chatbot_response_stream builds the context
\* and starts travel_agent.stream(messages), i.e. llm.stream(full_prompt)
StartResponse ==
    /\ UNCHANGED aux_vars
    /\ UNCHANGED submitted_in
    /\ pc = "idle"
    /\ session_state.awaiting_response
    /\ messages' = build_messages(message_store, session_state,
                                  session_state.current_user_input)
    /\ full_response' = <<>>
    /\ displayed' = <<>>
    /\ chunks' = 0
    /\ iterations' = 0
    /\ turn_start_store' = message_store
    /\ model_generations' = 1
    /\ pc' = "stream"
    /\ last_op' = Op("start", Current, session_state.current_user_input)
    /\ UNCHANGED <<message_store, next_uuid, session_state, appended, last_active, turns_ok,
                   left_turns, deleted, turns_submitted>>

\* one chunk of llm.stream; a chunk without content is skipped
StreamChunk(content) ==
    /\ UNCHANGED aux_vars
    /\ UNCHANGED submitted_in
    /\ pc = "stream"
    /\ chunks < MaxChunks
    /\ chunks' = chunks + 1
    /\ full_response' = IF content # <<>> THEN full_response \o content ELSE full_response
    /\ displayed' = IF content # <<>> THEN displayed \o content ELSE displayed
    /\ last_op' = Op("chunk", Current, content)
    /\ UNCHANGED <<message_store, next_uuid, session_state, pc, messages, iterations,
                   turn_start_store, model_generations, appended, last_active, turns_ok,
                   left_turns, deleted, turns_submitted>>

\* the stream raises: except Exception as e: yield error_msg
StreamRaises(e) ==
    /\ UNCHANGED aux_vars
    /\ UNCHANGED submitted_in
    /\ pc = "stream"
    /\ displayed' = displayed \o ErrorMsg(e)
    /\ pc' = "done"
    /\ chunks' = 0
    /\ message_store' = stream_except(message_store, Current,
                                       session_state.current_user_input, ErrorMsg(e))
    /\ turns_ok' = Taint(turns_ok, Current)
    /\ last_op' = Op("stream_raised", Current, ErrorMsg(e))
    /\ UNCHANGED <<next_uuid, session_state, messages, full_response,
                   iterations, turn_start_store, model_generations, appended, last_active,
                   left_turns, deleted, turns_submitted>>

\* the stream is exhausted: travel_agent.invoke([HumanMessage(user_input)])
StreamEnds ==
    /\ UNCHANGED aux_vars
    /\ UNCHANGED submitted_in
    /\ pc = "stream"
    /\ pc' = "invoke"
    /\ iterations' = 0
    /\ chunks' = 0
    /\ last_op' = Op("stream_end", Current, full_response)
    /\ UNCHANGED <<message_store, next_uuid, session_state, messages, full_response,
                   displayed, turn_start_store, model_generations, appended, last_active,
                   turns_ok, left_turns, deleted, turns_submitted>>

\* AgentExecutor: the model asks for the weather tool, the tool runs
AgentToolCall ==
    /\ UNCHANGED aux_vars
    /\ UNCHANGED submitted_in
    /\ pc = "invoke"
    /\ should_continue(iterations)
    /\ iterations' = iterations + 1
    /\ model_generations' = IF iterations = 0 THEN model_generations + 1
                            ELSE model_generations
    /\ last_op' = Op("tool_call", Current, <<>>)
    /\ UNCHANGED <<message_store, next_uuid, session_state, pc, messages, full_response,
                   displayed, chunks, turn_start_store, appended, last_active, turns_ok,
                   left_turns, deleted, turns_submitted>>

\* invoke returns output: the history wrapper saves the exchange
InvokeReturns(output, op) ==
    /\ UNCHANGED aux_vars
    /\ UNCHANGED submitted_in
    /\ message_store' = invoke_saved(message_store, session_state.travel_agent,
                                     session_state.current_user_input, output)
    /\ appended' = [appended EXCEPT ![session_state.travel_agent] =
                       @ \o << Turn("human", session_state.current_user_input),
                               Turn("assistant", output) >>]
    /\ last_active' = Touch(last_active, session_state.travel_agent)
    /\ turns_ok' = Count(turns_ok, Current, full_response # <<>> /\ output # <<>>)
    /\ pc' = "done"
    /\ last_op' = Op(op, session_state.travel_agent, output)
    /\ UNCHANGED <<next_uuid, session_state, messages, full_response, displayed, chunks,
                   iterations, turn_start_store, left_turns, deleted, turns_submitted>>

\* AgentExecutor: the model gives its final answer
AgentFinish(output) ==
    /\ pc = "invoke"
    /\ should_continue(iterations)
    /\ model_generations' = IF iterations = 0 THEN model_generations + 1
                            ELSE model_generations
    /\ InvokeReturns(output, "agent_finish")

\* AgentExecutor: iteration limit reached, early_stopping_method = "force"
AgentStopped ==
    /\ pc = "invoke"
    /\ ~should_continue(iterations)
    /\ UNCHANGED model_generations
    /\ InvokeReturns(StoppedResponse, "agent_stopped")

\* invoke raises: the except branch saves the exchange directly
InvokeRaises(n) ==
    /\ UNCHANGED aux_vars
    /\ UNCHANGED submitted_in
    /\ pc = "invoke"
    /\ message_store' = save_direct(message_store, Current,
                                    session_state.current_user_input, full_response, n)
    /\ appended' = [appended EXCEPT ![Current] =
                       @ \o SubSeq(<< Turn("human", session_state.current_user_input),
                                      Turn("assistant", full_response) >>, 1, n)]
    /\ last_active' = IF n > 0 THEN Touch(last_active, Current) ELSE last_active
    /\ turns_ok' = Count(turns_ok, Current, n = 2 /\ full_response # <<>>)
    /\ pc' = "done"
    /\ displayed' = displayed \o alt_save_except(n)
    /\ last_op' = Op("direct_save", Current, <<n>>)
    /\ UNCHANGED <<next_uuid, session_state, messages, full_response, chunks,
                   iterations, turn_start_store, model_generations, left_turns, deleted,
                   turns_submitted>>

\* main: the generator is exhausted; the response joins the displayed
\* history, the flags are cleared, st.rerun()
FinishResponse ==
    /\ UNCHANGED aux_vars
    /\ submitted_in' = None
    /\ pc = "done"
    /\ session_state' = initialize_session_state(
           [session_state EXCEPT
               !.history = Append(@, [origin |-> "assistant", message |-> displayed]),
               !.awaiting_response = FALSE,
               !.current_user_input = <<>>],
           message_store, next_uuid)
    /\ pc' = "idle"
    /\ messages' = <<>>
    /\ full_response' = <<>>
    /\ displayed' = <<>>
    /\ chunks' = 0
    /\ iterations' = 0
    /\ turn_start_store' = <<>>
    /\ model_generations' = 0
    /\ last_op' = Op("finish", Current, displayed)
    /\ UNCHANGED <<message_store, next_uuid, appended, last_active, turns_ok, left_turns,
                   deleted,
                   turns_submitted>>

Next ==
    \/ NewChat
    \/ \E session \in SessionIds : SwitchClick(session)
    \/ \E session \in SessionIds, raises \in BOOLEAN : DeleteClick(session, raises)
    \/ \E human_prompt \in AllPrompts : Submit(human_prompt)
    \/ StartResponse
    \/ \E content \in ChunkContents : StreamChunk(content)
    \/ \E e \in Exceptions : StreamRaises(e)
    \/ StreamEnds
    \/ AgentToolCall
    \/ \E output \in AgentAnswers : AgentFinish(output)
    \/ AgentStopped
    \/ \E n \in 0..2 : InvokeRaises(n)
    \/ FinishResponse

Spec == Init /\ [][Next]_vars

TypeOK ==
    /\ pc \in {"idle", "stream", "invoke", "done"}
    /\ next_uuid \in 2..(MaxSessions + 1)
    /\ Current \in SessionIds
    /\ chunks \in 0..MaxChunks

\* ------------------------------------------------- the session manager
\* The functions of main.py that reach the database, called directly in any
\* order: add_message on a session's history, delete_chat_session,
\* get_chat_history_for_session and get_all_chat_sessions.
MaxRows == 3            \* rows the table may hold

StoreTypes == {"human", "ai"}
\* a HumanMessage holds a typed text, an AIMessage an answer
StoreContents(type) == IF type = "human" THEN {Typed[1]} ELSE AgentAnswers

store_frame == <<next_uuid, session_state, pc, messages, full_response, displayed,
                 chunks, iterations, turn_start_store, model_generations,
                 turns_ok, left_turns, turns_submitted, weather, calendar_date,
                 submitted_in, invoke_call>>

\* get_session_history(session).add_message(message)
StoreAppend(session, type, content) ==
    /\ Len(message_store) < MaxRows
    /\ message_store' = add_message(message_store, session, type, content)
    /\ appended' = [appended EXCEPT ![session] =
                       Append(@, Turn(IF type = "human" THEN "human" ELSE "assistant",
                                      content))]
    /\ last_active' = Touch(last_active, session)
    /\ last_op' = Op("append", session, <<>>)
    /\ store_result' = NoResult
    /\ UNCHANGED deleted
    /\ UNCHANGED store_frame

\* delete_chat_session(session); clear raises or not
StoreDelete(session, raises) ==
    LET r == delete_chat_session(message_store, session, raises)
        had == IF get_session_history(message_store, session) = <<>>
               THEN "empty" ELSE "rows"
    IN  /\ message_store' = r.store
        /\ store_result' = [ok |-> r.ok, turns |-> <<>>, sessions |-> <<>>]
        /\ appended' = IF r.ok THEN [appended EXCEPT ![session] = <<>>] ELSE appended
        /\ last_active' = IF r.ok THEN Drop(last_active, session) ELSE last_active
        /\ deleted' = IF r.ok THEN deleted \cup {session} ELSE deleted
        /\ last_op' = Op("delete", session, <<IF raises THEN "raises" ELSE had>>)
        /\ UNCHANGED store_frame

\* get_chat_history_for_session(session)
StoreRead(session) ==
    /\ store_result' = [ok |-> TRUE,
                        turns |-> get_chat_history_for_session(message_store, session),
                        sessions |-> <<>>]
    /\ last_op' = Op("read", session, <<>>)
    /\ UNCHANGED <<message_store, appended, last_active, deleted>>
    /\ UNCHANGED store_frame

\* get_all_chat_sessions()
StoreList ==
    /\ store_result' = [ok |-> TRUE, turns |-> <<>>,
                        sessions |-> get_all_chat_sessions(message_store)]
    /\ last_op' = Op("list", None, <<>>)
    /\ UNCHANGED <<message_store, appended, last_active, deleted>>
    /\ UNCHANGED store_frame

StoreNext ==
    \/ \E session \in SessionIds, type \in StoreTypes :
           \E content \in StoreContents(type) : StoreAppend(session, type, content)
    \/ \E session \in SessionIds, raises \in BOOLEAN : StoreDelete(session, raises)
    \/ \E session \in SessionIds : StoreRead(session)
    \/ StoreList

StoreSpec == Init /\ [][StoreNext]_vars

\* ------------------------------------------------- the weather tool
\* WeatherTool._run of weather_tool.py (variant 1) and of
\* weather_wrapper_tool.py (variant 2), called with a city and an optional
\* country code while the environment holds or lacks the credential and the
\* provider answers in one of several ways.  Texts are sequences of words;
\* temperatures are in tenths of a degree.
Cities == {"Paris", "Atlantis"}
NoCountryCode == ""                       \* None or "": both falsy
CountryCodes == {NoCountryCode, "FR"}
Unset == "<unset>"                        \* the variable is not in os.environ
ApiKeys == {Unset, "", "key"}
ProviderOutcomes == {"ok", "no_temp", "not_found", "network", "malformed"}
RawTemps == {-45, 90, 95, 99, 100, 105, 110, 240, 245, 250, 251, 255, 260, 400}
Humidities == {69, 70, 71}
Descriptions == {"light rain", "clear sky"}
Title(d) == IF d = "light rain" THEN "Light Rain" ELSE "Clear Sky"

ForecastItem(date, lo, hi, d) ==
    [date |-> date, temp_min |-> lo, temp_max |-> hi, description |-> d]
Forecasts ==
    { <<>>,
      << ForecastItem("d1", 95, 120, "light rain"), ForecastItem("d2", 80, 90, "clear sky"),
         ForecastItem("d1", 60, 155, "clear sky") >>,
      << ForecastItem("d1", 10, 20, "clear sky"), ForecastItem("d2", 20, 30, "clear sky"),
         ForecastItem("d3", 30, 40, "light rain"), ForecastItem("d4", 40, 50, "clear sky"),
         ForecastItem("d5", 50, 60, "clear sky"), ForecastItem("d6", 60, 70, "clear sky"),
         ForecastItem("d1", 5, 25, "light rain") >> }

\* what a call produced: a returned text or a raised exception (its message
\* in text), and the queries that went to the provider
Return(text, calls) == [kind |-> "return", text |-> text, calls |-> calls]
Raise(message, calls) == [kind |-> "raise", text |-> <<message>>, calls |-> calls]

Unavailable ==
    "Weather service unavailable - OPENWEATHERMAP_API_KEY not set in environment variables."
MissingKeyError == "Did not find openweathermap_api_key"
ProviderError(provider) ==
    IF provider = "not_found" THEN "Unable to find the resource"
    ELSE IF provider = "network" THEN "Connection refused"
    ELSE "Impossible to parse the API response"

\* f"{x}" of a float with one decimal, x in tenths
FormatFloat(x) ==
    IF x < 0 THEN "-" \o ToString((-x) \div 10) \o "." \o ToString((-x) % 10)
    ELSE ToString(x \div 10) \o "." \o ToString(x % 10)

\* float(s) succeeds on the numerals and raises ValueError on anything else
CanFloat(tok) == \E x \in RawTemps : FormatFloat(x) = tok
float(tok) == CHOOSE x \in RawTemps : FormatFloat(x) = tok

\* round(x): to the nearest integer, a half to the even one
round(x) ==
    LET q == x \div 10
        r == x % 10
    IN  IF r < 5 THEN q
        ELSE IF r > 5 THEN q + 1
        ELSE IF q % 2 = 0 THEN q ELSE q + 1

\* f"{city},{country_code}" if country_code else city
Query(city, country_code) ==
    IF country_code # NoCountryCode THEN city \o "," \o country_code ELSE city

\* mutant: the handler lets the exception through
except_nothing(r, advice) == r

\* except Exception as e: return f"Failed to fetch weather: {str(e)}..."
except_Exception(r, advice) ==
    IF r.kind = "raise"
    THEN Return(<<"Failed to fetch weather:">> \o r.text \o advice, r.calls)
    ELSE r

\* mutant: the wrapper is built without the credential
validate_environment_lenient(api_key) == TRUE

\* OpenWeatherMapAPIWrapper validate_environment: get_from_dict_or_env finds
\* a non-empty key or raises
validate_environment(api_key) == api_key # Unset /\ api_key # ""

\* ---- variant 1
\* OpenWeatherMapAPIWrapper.run: one request, formatted by _format_weather_info
weather_run(query, provider, temp, humidity) ==
    IF provider \notin {"ok", "no_temp"} THEN Raise(ProviderError(provider), <<query>>)
    ELSE LET t == IF provider = "ok" THEN FormatFloat(temp) ELSE "None"
         IN  Return(<<"In", query, "the current weather is as follows:",
                      "Wind speed:", "3.1", "m/s,", "direction:", "270", "°",
                      "Humidity:", ToString(humidity), "%",
                      "Temperature:", "-", "Current:", t, "°C",
                      "-", "High:", t, "°C", "-", "Low:", t, "°C",
                      "-", "Feels", "like:", t, "°C">>, <<query>>)

\* result.split("°C")[0].split(): the words before the first "°C"
WordsBeforeDegC(text) ==
    LET i == CHOOSE k \in 1..Len(text) :
                 text[k] = "°C" /\ \A j \in 1..(k - 1) : text[j] # "°C"
    IN  SubSeq(text, 1, i - 1)

\* mutant: a temperature of exactly 10 counts as cold
temperature_tip_cold_at_ten(temp) ==
    IF temp <= 100 THEN "Pack warm clothes - great for indoor activities like museums!"
    ELSE IF temp > 250 THEN "Pack light clothes, sunscreen, and stay hydrated!"
    ELSE "Comfortable weather - pack layers for versatility!"

\* the if / elif / else on temp of weather_tool.py
temperature_tip(temp) ==
    IF temp < 100 THEN "Pack warm clothes - great for indoor activities like museums!"
    ELSE IF temp > 250 THEN "Pack light clothes, sunscreen, and stay hydrated!"
    ELSE "Comfortable weather - pack layers for versatility!"

\* mutant: the inner except adds no line
weather_tool_try_no_fallback(city, country_code, api_key, provider, temp, humidity) ==
    IF api_key = Unset \/ api_key = "" THEN Return(<<Unavailable>>, <<>>)
    ELSE IF ~validate_environment(api_key) THEN Raise(MissingKeyError, <<>>)
    ELSE
        LET result == weather_run(Query(city, country_code), provider, temp, humidity)
            enhanced_result == result.text \o <<"Travel Tips based on current conditions:">>
            words == WordsBeforeDegC(result.text)
        IN  IF result.kind = "raise" THEN result
            ELSE IF "°C" \notin Range(result.text) THEN Return(enhanced_result, result.calls)
            ELSE IF words = <<>> THEN Raise("list index out of range", result.calls)
            ELSE IF CanFloat(words[Len(words)])
                 THEN Return(enhanced_result
                               \o <<temperature_tip(float(words[Len(words)]))>>,
                             result.calls)
            ELSE Return(enhanced_result, result.calls)

\* the body of the try of weather_tool.WeatherTool._run
weather_tool_try(city, country_code, api_key, provider, temp, humidity) ==
    IF api_key = Unset \/ api_key = "" THEN Return(<<Unavailable>>, <<>>)
    ELSE IF ~validate_environment(api_key) THEN Raise(MissingKeyError, <<>>)
    ELSE
        LET result == weather_run(Query(city, country_code), provider, temp, humidity)
            enhanced_result == result.text \o <<"Travel Tips based on current conditions:">>
            words == WordsBeforeDegC(result.text)
        IN  IF result.kind = "raise" THEN result
            ELSE IF "°C" \notin Range(result.text) THEN Return(enhanced_result, result.calls)
            ELSE IF words = <<>> THEN Raise("list index out of range", result.calls)
            ELSE IF CanFloat(words[Len(words)])
                 THEN Return(enhanced_result
                               \o <<temperature_tip(float(words[Len(words)]))>>,
                             result.calls)
            ELSE Return(enhanced_result \o <<"Check the weather and pack accordingly!">>,
                        result.calls)

weather_tool_run(city, country_code, api_key, provider, temp, humidity) ==
    except_Exception(
        weather_tool_try(city, country_code, api_key, provider, temp, humidity),
        <<". Please check your API key and city name.">>)

\* ---- variant 2
\* dates of the forecast in order of first appearance
RECURSIVE Dates(_, _)
Dates(list, seen) ==
    IF list = <<>> THEN <<>>
    ELSE IF Head(list).date \in seen THEN Dates(Tail(list), seen)
    ELSE <<Head(list).date>> \o Dates(Tail(list), seen \cup {Head(list).date})

Min(S) == CHOOSE x \in S : \A y \in S : x <= y
Max(S) == CHOOSE x \in S : \A y \in S : x >= y

\* mutant: only the first entry of a date is used
day_forecast_first_entry(list, date) ==
    LET items == SelectSeq(list, LAMBDA it : it.date = date)
    IN  [temp_min |-> items[1].temp_min, temp_max |-> items[1].temp_max,
         description |-> items[1].description]

\* day_forecasts[date] once the loop over forecast_data['list'] has ended
day_forecast(list, date) ==
    LET items == SelectSeq(list, LAMBDA it : it.date = date)
    IN  [temp_min |-> Min({items[i].temp_min : i \in 1..Len(items)}),
         temp_max |-> Max({items[i].temp_max : i \in 1..Len(items)}),
         description |-> items[1].description]

RECURSIVE ForecastLines(_, _)
ForecastLines(list, dates) ==
    IF dates = <<>> THEN <<>>
    ELSE LET data == day_forecast(list, Head(dates))
         IN  <<Head(dates) \o ":", ToString(round(data.temp_min)), "°C", "-",
               ToString(round(data.temp_max)), "°C", Title(data.description)>>
             \o ForecastLines(list, Tail(dates))

\* the if / elif / else on temperature of format_weather
travel_tips(temperature) ==
    IF temperature < 10 THEN " * Pack warm clothes and enjoy indoor activities."
    ELSE IF temperature > 25
         THEN " * Pack light clothes, stay hydrated, and use sunscreen."
    ELSE " * Comfortable weather, pack layers for changes."

\* CustomWeatherWrapper.format_weather
format_weather(current_data, forecast_data) ==
    LET temperature == round(current_data.temp)
        feels_like == round(current_data.feels_like)
        dates == Dates(forecast_data, {})
    IN  <<"Current weather in", current_data.name \o ",", current_data.country \o ":",
          "Temperature:", ToString(temperature), "°C",
          "(Feels like:", ToString(feels_like), "°C)",
          "Condition:", Title(current_data.description),
          "Humidity:", ToString(current_data.humidity), "%">>
        \o (IF forecast_data # <<>>
            THEN <<"5-day Forecast:">>
                 \o ForecastLines(forecast_data, SubSeq(dates, 1, Min({5, Len(dates)})))
            ELSE <<>>)
        \o <<"Travel Tips:", travel_tips(temperature)>>
        \o (IF current_data.humidity > 70
            THEN <<" * High humidity, dress comfortably.">> ELSE <<>>)

\* the body of the try of weather_wrapper_tool.WeatherTool._run;
\* has_call_api: the installed OpenWeatherMapAPIWrapper has a _call_api method
forecast_tool_try(city, country_code, api_key, has_call_api, provider, temp, humidity, description, forecast) ==
    LET query == Query(city, country_code)
    IN  IF ~validate_environment(api_key) THEN Raise(MissingKeyError, <<>>)
        ELSE IF ~has_call_api
             THEN Raise("'CustomWeatherWrapper' object has no attribute '_call_api'", <<>>)
        ELSE IF provider \in {"not_found", "network"}
             THEN Raise(ProviderError(provider), <<query>>)
        ELSE IF provider = "malformed" THEN Raise("'main'", <<query, query>>)
        ELSE IF provider = "no_temp"
             THEN Raise("type NoneType doesn't define __round__ method", <<query, query>>)
        ELSE Return(format_weather([name |-> city, country |-> "FR", temp |-> temp,
                                    feels_like |-> temp, description |-> description,
                                    humidity |-> humidity], forecast),
                    <<query, query>>)

forecast_tool_run(city, country_code, api_key, has_call_api, provider, temp, humidity, description, forecast) ==
    except_Exception(
        forecast_tool_try(city, country_code, api_key, has_call_api, provider, temp,
                          humidity, description, forecast), <<>>)

weather_frame == <<message_store, next_uuid, session_state, pc, messages, full_response,
                   displayed, chunks, iterations, last_op, appended, turn_start_store,
                   model_generations, turns_ok, left_turns, deleted, turns_submitted,
                   last_active, store_result, calendar_date, submitted_in,
                   invoke_call>>

Called(variant, api_key, has_call_api, provider, temp, humidity, forecast, result) ==
    [state |-> "returned", variant |-> variant, api_key |-> api_key, forecast |-> forecast,
     has_call_api |-> has_call_api, provider |-> provider, temp |-> temp,
     humidity |-> humidity, result |-> result]

\* weather_tool.WeatherTool._run(city, country_code)
WeatherToolRun(city, country_code, api_key, provider, temp, humidity) ==
    /\ weather.state = "none"
    /\ weather' = Called(1, api_key, TRUE, provider, temp, humidity, <<>>,
                         weather_tool_run(city, country_code, api_key, provider, temp,
                                          humidity))
    /\ UNCHANGED weather_frame

\* weather_wrapper_tool.WeatherTool._run(city, country_code)
ForecastToolRun(city, country_code, api_key, has_call_api, provider, temp, humidity, description, forecast) ==
    /\ weather.state = "none"
    /\ weather' = Called(2, api_key, has_call_api, provider, temp, humidity, forecast,
                         forecast_tool_run(city, country_code, api_key, has_call_api,
                                           provider, temp, humidity, description,
                                           forecast))
    /\ UNCHANGED weather_frame

WeatherNext ==
    \/ \E city \in Cities, country_code \in CountryCodes, api_key \in ApiKeys,
          provider \in ProviderOutcomes, temp \in RawTemps, humidity \in Humidities :
           WeatherToolRun(city, country_code, api_key, provider, temp, humidity)
    \/ \E city \in Cities, country_code \in CountryCodes, api_key \in ApiKeys,
          has_call_api \in BOOLEAN, provider \in ProviderOutcomes, temp \in RawTemps,
          humidity \in Humidities, description \in Descriptions,
          forecast \in Forecasts :
           ForecastToolRun(city, country_code, api_key, has_call_api, provider, temp,
                           humidity, description, forecast)

WeatherSpec == Init /\ [][WeatherNext]_vars

\* ------------------------------------------------- the calendar
\* One session kept open over midnight: the turns of the page, and the day
\* changing while the process runs.
MaxDay == 2             \* last calendar day

\* the calendar date advances; the process keeps running
Midnight ==
    /\ calendar_date < MaxDay
    /\ calendar_date' = calendar_date + 1
    /\ UNCHANGED <<message_store, next_uuid, session_state, pc, messages, full_response,
                   displayed, chunks, iterations, last_op, appended, turn_start_store,
                   model_generations, turns_ok, left_turns, deleted, turns_submitted,
                   last_active, store_result, weather, submitted_in,
                   invoke_call>>

ClockNext ==
    \/ Midnight
    \/ \E human_prompt \in AllPrompts : Submit(human_prompt)
    \/ StartResponse
    \/ \E content \in ChunkContents : StreamChunk(content)
    \/ \E e \in Exceptions : StreamRaises(e)
    \/ StreamEnds
    \/ \E output \in AgentAnswers : AgentFinish(output)
    \/ FinishResponse

ClockSpec == Init /\ [][ClockNext]_vars

\* ------------------------------------------------- interrupted script runs
\* A click in the sidebar while the script still runs with a pending input:
\* Streamlit stops the running script at its next st.* call (before the
\* response block, or at response_placeholder.write between two chunks) and
\* reruns main() with the click; st.session_state is kept.
ScriptStopped ==
    /\ session_state.awaiting_response
    /\ pc \in {"idle", "stream"}
    /\ pc' = "idle"
    /\ messages' = <<>>
    /\ full_response' = <<>>
    /\ displayed' = <<>>
    /\ chunks' = 0
    /\ iterations' = 0
    /\ turn_start_store' = <<>>
    /\ model_generations' = 0
    /\ UNCHANGED aux_vars
    /\ UNCHANGED <<submitted_in, turns_submitted, turns_ok>>

\* "New Chat" clicked during the run
InterruptNewChat ==
    /\ ScriptStopped
    /\ next_uuid <= MaxSessions
    /\ session_state' = initialize_session_state(
                            switch_session(session_state, create_new_chat_session(next_uuid)),
                            message_store, next_uuid + 1)
    /\ next_uuid' = next_uuid + 1
    /\ left_turns' = [left_turns EXCEPT ![Current] = appended[Current]]
    /\ last_op' = Op("interrupt_new", next_uuid, <<>>)
    /\ UNCHANGED <<message_store, appended, last_active, deleted>>

\* "Chat i" of another session clicked during the run
InterruptSwitch(session) ==
    /\ ScriptStopped
    /\ session \in Range(get_all_chat_sessions(message_store))
    /\ session # Current
    /\ session_state' = initialize_session_state(switch_session(session_state, session),
                                                 message_store, next_uuid)
    /\ left_turns' = [left_turns EXCEPT ![Current] = appended[Current]]
    /\ last_op' = Op("interrupt_switch", session, <<>>)
    /\ UNCHANGED <<message_store, next_uuid, appended, last_active, deleted>>

\* the delete button of the current session clicked during the run
InterruptDeleteCurrent ==
    /\ ScriptStopped
    /\ Current \in Range(get_all_chat_sessions(message_store))
    /\ next_uuid <= MaxSessions
    /\ LET r == delete_chat_session(message_store, Current, FALSE)
       IN  /\ message_store' = r.store
           /\ session_state' = delete_clicked(session_state, r.store, Current, r.ok,
                                               next_uuid)
    /\ next_uuid' = next_uuid + 1
    /\ appended' = [appended EXCEPT ![Current] = <<>>]
    /\ last_active' = Drop(last_active, Current)
    /\ deleted' = deleted \cup {Current}
    /\ left_turns' = [left_turns EXCEPT ![Current] = <<>>]
    /\ last_op' = Op("interrupt_delete", Current, <<>>)

InterruptNext ==
    \/ Next
    \/ InterruptNewChat
    \/ \E session \in SessionIds : InterruptSwitch(session)
    \/ InterruptDeleteCurrent

InterruptSpec == Init /\ [][InterruptNext]_vars

\* ------------------------------------------------- StreamableAgent.invoke
\* StreamableAgent.invoke called directly with any argument: a list of
\* messages or a string, on an agent bound to a session or to none.
MaxMessages == 2        \* messages in the list passed to invoke

MessageTypes == {"SystemMessage", "HumanMessage", "AIMessage"}
MessageContents == {<<>>, Typed[1], Typed[2]}
Messages == [type : MessageTypes, content : MessageContents]
MessageLists == UNION {[1..n -> Messages] : n \in 0..MaxMessages}
\* the argument of invoke: a list of messages or a str
InvokeArguments == [kind : {"list"}, value : MessageLists]
                       \cup [kind : {"str"}, value : {<<>>, Typed[1]}]

NoValidInput == <<"No valid input provided.">>

\* str(messages) of a str is the str; of a list, its repr, "[]" when empty
str(argument) ==
    IF argument.kind = "str" THEN argument.value
    ELSE IF argument.value = <<>> THEN <<"[]">>
    ELSE <<"[...]">>

\* the truth value of the argument: not an empty list, not an empty str
bool(argument) == argument.value # <<>>

\* the HumanMessages of the list, in order
Humans(list) == SelectSeq(list, LAMBDA msg : msg.type = "HumanMessage")
\* chat_history: the messages that are neither HumanMessage nor SystemMessage
Others(list) ==
    SelectSeq(list, LAMBDA msg : msg.type \notin {"HumanMessage", "SystemMessage"})

\* for msg in messages: if ... 'HumanMessage': user_input = msg.content; break
first_human_content(list) ==
    LET humans == Humans(list)
    IN  IF humans = <<>> THEN <<>> ELSE humans[1].content

\* the same loop without the break: the last HumanMessage wins
last_human_content(list) ==
    LET humans == Humans(list)
    IN  IF humans = <<>> THEN <<>> ELSE humans[Len(humans)].content

NotInvoked(store) ==
    [invoked |-> FALSE, input |-> <<>>, chat_history |-> <<>>,
     output |-> NoValidInput, store |-> store]

\* user_input on the path `if self.session_id and self.agent_with_history`
user_input_bound(argument) ==
    IF argument.kind = "list" /\ Len(argument.value) > 0
    THEN first_human_content(argument.value)
    ELSE IF argument.kind = "str" THEN argument.value
    ELSE str(argument)

\* StreamableAgent.invoke(messages); answer is what the agent run returns
invoke(store, session_id, argument, answer) ==
    IF session_id # None
    THEN LET user_input == user_input_bound(argument)
         IN  IF user_input # <<>>
             THEN [invoked |-> TRUE, input |-> user_input, chat_history |-> <<>>,
                   output |-> answer,
                   store |-> invoke_saved(store, session_id, user_input, answer)]
             ELSE NotInvoked(store)
    ELSE IF argument.kind = "list" /\ Len(argument.value) > 0
         THEN LET user_input == last_human_content(argument.value)
              IN  IF user_input # <<>>
                  THEN [invoked |-> TRUE, input |-> user_input,
                        chat_history |-> Others(argument.value),
                        output |-> answer, store |-> store]
                  ELSE NotInvoked(store)
         ELSE LET input_str == IF bool(argument) THEN str(argument) ELSE <<>>
              IN  IF input_str # <<>>
                  THEN [invoked |-> TRUE, input |-> input_str, chat_history |-> <<>>,
                        output |-> answer, store |-> store]
                  ELSE NotInvoked(store)

\* travel_agent.invoke(argument) on an agent made by get_travel_agent(session_id)
AgentInvoke(session_id, argument, answer) ==
    /\ invoke_call.state = "none"
    /\ LET r == invoke(message_store, session_id, argument, answer)
       IN  /\ message_store' = r.store
           /\ invoke_call' = [state |-> "returned", session_id |-> session_id,
                              argument |-> argument, before |-> message_store,
                              result |-> r]
    /\ UNCHANGED <<next_uuid, session_state, pc, messages, full_response, displayed,
                   chunks, iterations, last_op, appended, turn_start_store,
                   model_generations, turns_ok, left_turns, deleted, turns_submitted,
                   last_active, store_result, weather, calendar_date, submitted_in>>

InvokeNext ==
    \E session_id \in {None} \cup SessionIds, argument \in InvokeArguments,
       answer \in AgentAnswers :
        AgentInvoke(session_id, argument, answer)

InvokeSpec == Init /\ [][InvokeNext]_vars

\* ================================================= claims C1 - C10
ToMessages(turns) ==
    [i \in 1..Len(turns) |-> [origin |-> turns[i].origin, message |-> turns[i].content]]

\* the rows the running turn has added to the table
SavedRows == SubSeq(message_store, Len(turn_start_store) + 1, Len(message_store))

\* C1: for every session, reading it returns exactly the turns appended to
\* it since its last clear, with their roles and contents, in append order.
C1_ReadReturnsAppendsInOrder ==
    \A s \in SessionIds :
        get_chat_history_for_session(message_store, s) = appended[s]

\* C1 witness: two sessions hold turns that were appended interleaved in the
\* table, one of them through both save paths.
C1_Witness ==
    \E s, t \in SessionIds :
        /\ s # t
        /\ Len(appended[s]) >= 2
        /\ Len(appended[t]) >= 2
        /\ get_chat_history_for_session(message_store, s) = appended[s]
        /\ message_store[1].session_id # message_store[Len(message_store)].session_id

\* C2: after switching away from a session and back to it, the history
\* loaded for it is exactly the turn sequence it had when it was left.
C2_RoundTripReproducesTurns ==
    last_op.op = "switch" =>
        /\ Current = last_op.sid
        /\ left_turns[Current] # <<>>
        /\ session_state.history = ToMessages(left_turns[Current])

\* C2 witness: back in a session while another session holds turns that
\* were written in between.
C2_Witness ==
    /\ last_op.op = "switch"
    /\ session_state.history = ToMessages(left_turns[Current])
    /\ \E b \in SessionIds : b > Current /\ appended[b] # <<>>

\* C3: the current session is never a deleted one; right after deleting the
\* current session the current session is a newly created one without turns.
C3_CurrentNeverDeleted ==
    /\ Current \notin deleted
    /\ last_op.op = "delete_current" =>
          /\ Current # last_op.sid
          /\ Current = next_uuid - 1
          /\ get_session_history(message_store, Current) = <<>>
          /\ appended[Current] = <<>>

\* C3 witness: the current session, which held turns, has just been deleted
\* and the greeting of an empty session is displayed.
C3_Witness ==
    /\ last_op.op = "delete_current"
    /\ last_op.sid \in deleted
    /\ Current # last_op.sid
    /\ session_state.history = << [origin |-> "assistant", message |-> Greeting] >>

\* C4: the agent is bound to the current session and the history is the one
\* loaded for it, in particular whenever a response is generated or saved;
\* the context is read from, and rows are written to, the current session only.
C4_AgentBoundToCurrentSession ==
    /\ "travel_agent" \in session_state.keys
    /\ session_state.travel_agent = Current
    /\ session_state.agent_session_id = Current
    /\ session_state.last_loaded_session_id = Current
    /\ pc = "stream" => Len(messages) = Len(appended[Current]) + 2
    /\ pc \in {"stream", "invoke", "done"} =>
          \A s \in SessionIds \ {Current} :
              get_session_history(message_store, s)
                  = get_session_history(turn_start_store, s)

\* C4 witness: a response has been saved in a session that was switched to,
\* while the session left behind holds turns.
C4_Witness ==
    /\ pc = "done"
    /\ Current # 1
    /\ Len(SavedRows) = 2
    /\ appended[1] # <<>>

\* C5: rows are added to the store only once the streamed response is
\* complete, the human row first and the assistant row second.
C5_HumanThenAssistantAfterResponse ==
    [][Len(message_store') > Len(message_store) =>
          LET added == SubSeq(message_store', Len(message_store) + 1,
                              Len(message_store'))
          IN  /\ pc = "invoke"
              /\ SubSeq(message_store', 1, Len(message_store)) = message_store
              /\ Len(added) <= 2
              /\ added[1].type = "human"
              /\ added[1].content = session_state.current_user_input
              /\ Len(added) = 2 => added[2].type = "ai"]_vars

\* C5 witness: a turn has saved its two rows.
C5_Witness ==
    /\ pc = "done"
    /\ Len(SavedRows) = 2
    /\ SavedRows[1].type = "human"
    /\ SavedRows[2].type = "ai"

\* C6: the assistant turn saved for a message is the concatenation of the
\* fragments yielded for it.
C6_SavedEqualsDisplayed ==
    (pc = "done" /\ Len(SavedRows) = 2) => SavedRows[2].content = displayed

\* C7: when the stream raises, the apology string is yielded and the store
\* is what it was when the turn started.
C7_FailureLeavesStoreUnchanged ==
    last_op.op = "stream_raised" =>
        /\ pc = "done"
        /\ message_store = turn_start_store
        /\ \E e \in Exceptions : displayed = full_response \o ErrorMsg(e)

\* C7 witness: the stream raised after a fragment had been yielded, in a
\* session that already holds turns.
C7_Witness ==
    /\ last_op.op = "stream_raised"
    /\ full_response # <<>>
    /\ message_store = turn_start_store
    /\ appended[Current] # <<>>

NotAnError(content) ==
    \A i \in 1..Len(content) : content[i] # "Sorry, I encountered an error: "

\* C8: after k successful turns in a new session the store holds exactly 2k
\* turns for it, alternating human, assistant, each assistant text non-empty
\* and not the error string.
C8_TwoTurnsPerSuccessfulExchange ==
    \A s \in SessionIds :
        turns_ok[s] >= 0 =>
            LET h == get_chat_history_for_session(message_store, s)
            IN  /\ Len(h) = 2 * turns_ok[s]
                /\ \A i \in 1..Len(h) :
                      /\ h[i].origin = IF i % 2 = 1 THEN "human" ELSE "assistant"
                      /\ i % 2 = 0 => (h[i].content # <<>> /\ NotAnError(h[i].content))

\* C8 witness: two successful turns in one session, one saved by the history
\* wrapper and one saved directly.
C8_Witness ==
    \E s \in SessionIds :
        /\ turns_ok[s] = 2
        /\ Len(get_session_history(message_store, s)) = 4
        /\ \E i, j \in {2, 4} :
              /\ get_session_history(message_store, s)[i].content = <<"r">>
              /\ get_session_history(message_store, s)[j].content = <<"a">>

\* C9: the tool loop runs at most max_iterations rounds and then returns a
\* non-empty string.
C9_ToolLoopCapped ==
    /\ iterations <= max_iterations
    /\ last_op.op = "agent_stopped" =>
          /\ iterations = max_iterations
          /\ pc = "done"
          /\ last_op.arg # <<>>

\* C9 witness: the loop was stopped at the cap.
C9_Witness ==
    /\ last_op.op = "agent_stopped"
    /\ iterations = max_iterations
    /\ last_op.arg = StoppedResponse

\* C10: one submitted message starts one model generation.
C10_OneGenerationPerMessage ==
    model_generations <= 1

\* ================================================= claims C11 - C20
\* C11: once delete_chat_session(S) has returned True, and until a turn is
\* appended to S again, reading S returns the empty sequence.
C11_ClearThenReadIsEmpty ==
    /\ \A s \in deleted :
           appended[s] = <<>> => get_chat_history_for_session(message_store, s) = <<>>
    /\ (last_op.op = "read" /\ last_op.sid \in deleted /\ appended[last_op.sid] = <<>>)
           => store_result.turns = <<>>

\* a session that held turns was deleted while another one keeps its turns
C11_Witness ==
    /\ last_op.op = "delete" /\ last_op.arg = <<"rows">>
    /\ store_result.ok
    /\ get_chat_history_for_session(message_store, last_op.sid) = <<>>
    /\ message_store # <<>>

\* C12: get_all_chat_sessions lists exactly the sessions that hold at least
\* one stored turn: a cleared session is absent until a later append
\* recreates it, and every session with a turn is present.
C12_ListedIffHoldsTurns ==
    /\ Range(get_all_chat_sessions(message_store))
           = {s \in SessionIds : appended[s] # <<>>}
    /\ last_op.op = "list"
           => Range(store_result.sessions) = {s \in SessionIds : appended[s] # <<>>}

\* a session with turns has just been cleared and is absent, while a session
\* cleared earlier and appended to again is listed
C12_Witness ==
    /\ last_op.op = "delete" /\ last_op.arg = <<"rows">> /\ store_result.ok
    /\ last_op.sid \notin Range(get_all_chat_sessions(message_store))
    /\ \E t \in deleted \ {last_op.sid} :
           t \in Range(get_all_chat_sessions(message_store))

\* C13: get_all_chat_sessions returns every session that holds turns exactly
\* once, the session appended to most recently first, however the appends
\* of different sessions interleave.
C13_ListedOnceMostRecentFirst ==
    LET sessions == get_all_chat_sessions(message_store)
    IN  /\ sessions = last_active
        /\ Cardinality(Range(sessions)) = Len(sessions)
        /\ last_op.op = "list" => store_result.sessions = last_active

\* the rows of two sessions interleave: one session holds the first and the
\* third row, the other the second, and the listing has just been taken
C13_Witness ==
    /\ last_op.op = "list"
    /\ Len(message_store) = 3
    /\ message_store[1].session_id = message_store[3].session_id
    /\ message_store[2].session_id # message_store[3].session_id
    /\ store_result.sessions
           = <<message_store[3].session_id, message_store[2].session_id>>

\* C14: creating a session (first page load, New Chat, after deleting the
\* current session) writes nothing: the created session has no stored turns
\* and is not listed until a turn is appended to it, and the creation leaves
\* the turns of every existing session as they were.
C14_CreateDoesNotTouchStorage ==
    /\ [](/\ last_op.op \in {"load", "new", "delete_current"}
              => /\ get_chat_history_for_session(message_store, Current) = <<>>
                 /\ Current \notin Range(get_all_chat_sessions(message_store))
          /\ \A s \in SessionIds :
                 (appended[s] = <<>> /\ s \notin deleted)
                    => /\ get_chat_history_for_session(message_store, s) = <<>>
                       /\ s \notin Range(get_all_chat_sessions(message_store)))
    /\ [][next_uuid' # next_uuid
             => /\ last_op'.op = "new" => message_store' = message_store
                /\ \A s \in SessionIds \ {last_op'.sid} :
                       get_session_history(message_store', s)
                          = get_session_history(message_store, s)]_vars

\* New Chat was clicked while an earlier session holds turns
C14_Witness ==
    /\ last_op.op = "new"
    /\ message_store # <<>>
    /\ get_chat_history_for_session(message_store, Current) = <<>>
    /\ Current \notin Range(get_all_chat_sessions(message_store))

\* C15: sessions are independent partitions: a step that appends to a
\* session or clears it leaves what every other session reads unchanged.
C15_SessionsAreIndependent ==
    [][\A s \in SessionIds \ {last_op'.sid} :
           get_chat_history_for_session(message_store', s)
              = get_chat_history_for_session(message_store, s)]_vars

\* one session was cleared or appended to while another one holds turns
C15_Witness ==
    /\ last_op.op \in {"delete", "append"}
    /\ last_op.op = "delete" => last_op.arg = <<"rows">>
    /\ \E s \in SessionIds \ {last_op.sid} :
           get_chat_history_for_session(message_store, s) # <<>>

\* C16: reading a session that has no stored turns is not an error: the
\* read returns the empty sequence, and no read changes the store.
C16_UnknownSessionReadsEmpty ==
    /\ [](\A s \in SessionIds :
              (\A i \in 1..Len(message_store) : message_store[i].session_id # s)
                 => /\ get_chat_history_for_session(message_store, s) = <<>>
                    /\ (last_op.op = "read" /\ last_op.sid = s)
                           => store_result.ok /\ store_result.turns = <<>>)
    /\ [][last_op'.op = "read" => message_store' = message_store]_vars

\* a session never written to and never deleted was read while the table
\* holds rows of another session
C16_Witness ==
    /\ last_op.op = "read"
    /\ last_op.sid \notin deleted
    /\ message_store # <<>>
    /\ \A i \in 1..Len(message_store) : message_store[i].session_id # last_op.sid
    /\ store_result.turns = <<>>

\* C17: delete_chat_session on a session without stored turns returns True
\* and leaves the turns of every session and the session list unchanged,
\* and deleting a session twice leaves the store as deleting it once does.
C17_DeleteMissingIsNoOp ==
    /\ [][(/\ last_op'.op = "delete" /\ last_op'.arg # <<"raises">>
            /\ \A i \in 1..Len(message_store) :
                   message_store[i].session_id # last_op'.sid)
             => /\ store_result'.ok
                /\ message_store' = message_store
                /\ get_all_chat_sessions(message_store')
                      = get_all_chat_sessions(message_store)]_vars
    /\ [](\A s \in SessionIds :
              LET once == delete_chat_session(message_store, s, FALSE)
                  twice == delete_chat_session(once.store, s, FALSE)
              IN  once.ok /\ twice.ok /\ twice.store = once.store)

\* a session without rows was deleted while another session holds turns
C17_Witness ==
    /\ last_op.op = "delete" /\ last_op.arg = <<"empty">>
    /\ store_result.ok
    /\ message_store # <<>>
    /\ \A i \in 1..Len(message_store) : message_store[i].session_id # last_op.sid

\* C18: the weather tool never raises: whatever the city, the country code,
\* the credential and the provider's answer, _run returns a text, in both
\* variants.
C18_WeatherToolNeverRaises ==
    weather.state = "returned"
       => /\ weather.result.kind = "return"
          /\ weather.result.text # <<>>

\* the provider failed (unknown city, network failure or unparsable answer)
\* and the tool returned its failure text
C18_Witness ==
    /\ weather.state = "returned" /\ weather.variant = 1
    /\ weather.api_key = "key"
    /\ weather.provider \in {"not_found", "network", "malformed"}
    /\ weather.result.kind = "return"
    /\ weather.result.text[1] = "Failed to fetch weather:"

\* C19: with the credential missing (unset or empty) the tool returns a
\* text saying so, without raising and without a request to the provider.
C19_MissingCredentialIsReported ==
    (weather.state = "returned" /\ weather.api_key \in {Unset, ""})
       => /\ weather.result.kind = "return"
          /\ weather.result.calls = <<>>
          /\ weather.variant = 1 => weather.result.text = <<Unavailable>>
          /\ weather.variant = 2
                => weather.result.text = <<"Failed to fetch weather:", MissingKeyError>>

\* the variable is unset while the provider would have answered
C19_Witness ==
    /\ weather.state = "returned" /\ weather.variant = 1
    /\ weather.api_key = Unset /\ weather.provider = "ok"
    /\ weather.result = Return(<<Unavailable>>, <<>>)

ColdGuidance ==
    {"Pack warm clothes - great for indoor activities like museums!",
     " * Pack warm clothes and enjoy indoor activities."}
HotGuidance ==
    {"Pack light clothes, sunscreen, and stay hydrated!",
     " * Pack light clothes, stay hydrated, and use sunscreen."}
ModerateGuidance ==
    {"Comfortable weather - pack layers for versatility!",
     " * Comfortable weather, pack layers for changes."}
Lines(text, G) == Len(SelectSeq(text, LAMBDA w : w \in G))
Fetched ==
    /\ weather.state = "returned" /\ weather.api_key = "key"
    /\ weather.provider = "ok" /\ weather.has_call_api

\* the guidance of the text is the one that belongs to the temperature T
GuidanceFor(text, T) ==
    /\ Lines(text, ColdGuidance) + Lines(text, HotGuidance)
          + Lines(text, ModerateGuidance) = 1
    /\ Lines(text, ColdGuidance) = 1 <=> T < 10
    /\ Lines(text, HotGuidance) = 1 <=> T > 25
    /\ Lines(text, ModerateGuidance) = 1 <=> (10 <= T /\ T <= 25)

\* C20: for a fetched temperature of T whole degrees the text carries exactly
\* one guidance: the cold one iff T < 10, the hot one iff T > 25, the
\* moderate one iff 10 <= T <= 25.  In variant 2 T is also taken as the
\* whole number of degrees the text shows.
C20_OneGuidanceByTemperature ==
    Fetched
       => /\ weather.temp % 10 = 0
                => GuidanceFor(weather.result.text, weather.temp \div 10)
          /\ weather.variant = 2
                => \E T \in -10..45 :
                       /\ ToString(T) = weather.result.text[5]
                       /\ GuidanceFor(weather.result.text, T)

\* exactly 10 degrees were fetched and the moderate guidance was given
C20_Witness ==
    /\ Fetched /\ weather.variant = 1
    /\ weather.temp = 100
    /\ Lines(weather.result.text, ModerateGuidance) = 1

\* ================================================= claims C21 - C30
AdviceLines ==
    ColdGuidance \cup HotGuidance \cup ModerateGuidance
        \cup {"Check the weather and pack accordingly!"}

\* a number stands right before a "°C" of the text
HasTemperatureFigure(text) ==
    \E i \in 2..Len(text) : text[i] = "°C" /\ CanFloat(text[i - 1])

HumidityNote == {" * High humidity, dress comfortably."}

\* C22: the text of a fetched weather carries the humidity comfort note if
\* and only if the fetched humidity is above 70, in either variant.
C22_HumidityNoteIffAbove70 ==
    Fetched
       => (Lines(weather.result.text, HumidityNote) = 1 <=> weather.humidity > 70)

\* the fallback save has just failed: invoke raised, and fewer than the two
\* adds of the direct save succeeded
SaveFailed ==
    pc = "done" /\ last_op.op = "direct_save" /\ last_op.arg \in {<<0>>, <<1>>}

\* C23: when saving the exchange fails (invoke raises and the direct save
\* raises too) the turn goes on: what was yielded is the generated response
\* and nothing else, the next step puts it in the displayed history as the
\* assistant's message, clears awaiting_response and leaves the page idle
\* in the same session.
C23_SaveFailureDoesNotCrashTurn ==
    /\ [](SaveFailed => displayed = full_response)
    /\ [][SaveFailed
             => /\ pc' = "idle"
                /\ ~session_state'.awaiting_response
                /\ session_state'.current_user_input = <<>>
                /\ session_state'.current_session_id = Current
                /\ session_state'.history
                      = Append(session_state.history,
                               [origin |-> "assistant", message |-> full_response])]_vars

\* a response was streamed, the save failed completely, and the turn has
\* ended with the response in the displayed history
C23_Witness ==
    /\ last_op.op = "finish" /\ last_op.arg = <<"a">>
    /\ Idle
    /\ message_store = <<>>
    /\ session_state.history # <<>>
    /\ session_state.history[Len(session_state.history)]
          = [origin |-> "assistant", message |-> <<"a">>]

\* the turns appended to a session, as messages of a context
AsContext(turns) ==
    [i \in 1..Len(turns) |->
        [type |-> IF turns[i].origin = "human" THEN "human" ELSE "ai",
         content |-> turns[i].content]]

C25_PromptCarriesCurrentDate ==
    last_op.op = "start" => messages[1].content[3] = ToString(calendar_date)

\* the forecast part of a text: the words between the forecast header and
\* the tips header
ForecastPart(text) ==
    LET h == CHOOSE i \in 1..Len(text) : text[i] = "5-day Forecast:"
        t == CHOOSE i \in 1..Len(text) : text[i] = "Travel Tips:"
    IN  SubSeq(text, h + 1, t - 1)

\* the position of the first entry of a date, and the dates that appeared
\* before it
FirstEntry(f, d) == CHOOSE i \in 1..Len(f) : f[i].date = d /\ \A j \in 1..(i - 1) : f[j].date # d
DatesBefore(f, d) == {f[j].date : j \in 1..(FirstEntry(f, d) - 1)}
AllDates(f) == {f[i].date : i \in 1..Len(f)}

\* C26: the forecast of variant 2 has one line for each of the first 5
\* distinct dates, in order of first appearance; the line of a date gives
\* the least temp_min and the greatest temp_max over all entries of that
\* date, with min <= max, and the description of the date's first entry.
C26_ForecastGroupedByDate ==
    (Fetched /\ weather.variant = 2 /\ weather.forecast # <<>>)
       => LET f == weather.forecast
              part == ForecastPart(weather.result.text)
              kept == {d \in AllDates(f) : Cardinality(DatesBefore(f, d)) < 5}
          IN  /\ Len(part) = 7 * Cardinality(kept)
              /\ \A d \in kept :
                     LET k == Cardinality(DatesBefore(f, d))
                         entries == {i \in 1..Len(f) : f[i].date = d}
                     IN  /\ part[7 * k + 1] = d \o ":"
                         /\ \E lo \in entries, hi \in entries :
                                /\ \A i \in entries :
                                       /\ f[lo].temp_min <= f[i].temp_min
                                       /\ f[hi].temp_max >= f[i].temp_max
                                /\ part[7 * k + 2] = ToString(round(f[lo].temp_min))
                                /\ part[7 * k + 5] = ToString(round(f[hi].temp_max))
                                /\ round(f[lo].temp_min) <= round(f[hi].temp_max)
                         /\ part[7 * k + 7] = Title(f[FirstEntry(f, d)].description)

\* six dates were fetched, the first of them in two entries: five lines,
\* the first with the least minimum and the greatest maximum of its date
C26_Witness ==
    /\ Fetched /\ weather.variant = 2
    /\ Cardinality(AllDates(weather.forecast)) = 6
    /\ Len(ForecastPart(weather.result.text)) = 35
    /\ SubSeq(ForecastPart(weather.result.text), 1, 7)
          = <<"d1:", "0", "°C", "-", "2", "°C", "Clear Sky">>

\* C27: a pending input is sent to the model and persisted only in the
\* session in which it was submitted: while its response is generated or
\* saved, the current session and the session the agent is bound to are the
\* one of the submission.
C27_PendingAnsweredInItsSession ==
    pc \in {"stream", "invoke", "done"}
       => submitted_in = Current /\ submitted_in = session_state.travel_agent

\* the displayed history without the greeting shown for an empty session
WithoutGreeting(history) ==
    IF history # <<>> /\ history[1] = [origin |-> "assistant", message |-> Greeting]
    THEN Tail(history)
    ELSE history

\* the stored turns of a session as (origin, message) pairs, in stored order
StoredTurns(session) ==
    LET db_history == get_chat_history_for_session(message_store, session)
    IN  [i \in 1..Len(db_history) |->
            [origin |-> db_history[i].origin, message |-> db_history[i].content]]

\* C28: the displayed history refines the store: at the end of every
\* completed turn and after every session load, st.session_state.history of
\* the current session, the greeting left aside, equals the stored turns of
\* current_session_id in roles, contents and order.
C28_DisplayedRefinesStore ==
    (Idle /\ last_op.op \in {"load", "new", "switch", "delete_current", "finish"})
        => WithoutGreeting(session_state.history) = StoredTurns(Current)

\* C29: a delete_chat_session that fails changes nothing: the stored turns of
\* every session stay as they were, and in the UI the current session
\* pointer, the cached agent and the displayed history are unchanged, also
\* when the session is the current one.
C29_FailedDeleteChangesNothing ==
    [][last_op'.op = "delete_failed"
          => /\ message_store' = message_store
             /\ \A s \in SessionIds :
                    get_chat_history_for_session(message_store', s)
                        = get_chat_history_for_session(message_store, s)
             /\ session_state' = session_state
             /\ next_uuid' = next_uuid]_vars

\* the delete of the current session, which has stored turns, has failed
\* while another session has stored turns too
C29_Witness ==
    /\ last_op.op = "delete_failed"
    /\ last_op.sid = Current
    /\ get_session_history(message_store, Current) # <<>>
    /\ \E s \in SessionIds : s # Current /\ get_session_history(message_store, s) # <<>>

\* what can be extracted from the argument of invoke: the content of a
\* HumanMessage of the list, or the string itself
NoInputExtractable(argument) ==
    IF argument.kind = "list"
    THEN \A i \in 1..Len(argument.value) :
            argument.value[i].type = "HumanMessage" => argument.value[i].content = <<>>
    ELSE argument.value = <<>>

\* C30: invoke returns "No valid input provided." without running the agent
\* and without appending to the store whenever no non-empty user input can
\* be extracted from its argument (a list with no HumanMessage or only
\* empty ones, an empty list, an empty string), bound to a session or not;
\* otherwise, bound to a session, a list gives the agent the content of its
\* first HumanMessage.
C30_NoValidInput ==
    invoke_call.state = "returned" =>
        /\ NoInputExtractable(invoke_call.argument)
              => /\ invoke_call.result.output = NoValidInput
                 /\ ~invoke_call.result.invoked
                 /\ message_store = invoke_call.before
        /\ (/\ ~NoInputExtractable(invoke_call.argument)
            /\ invoke_call.session_id # None
            /\ invoke_call.argument.kind = "list"
            /\ invoke_call.result.invoked)
              => invoke_call.result.input
                    = first_human_content(invoke_call.argument.value)

====
